---------------------------- MODULE Spec2Model ----------------------------
(***************************************************************************)
(* DataEncoder of pytorch-retinanet (src/encoder.py): the anchor           *)
(* width/height table, the flat anchor list of an input size, and the      *)
(* encoding of ground-truth boxes and labels into per-anchor targets.      *)
(*                                                                         *)
(* Numbers.  Every anchor area, aspect ratio and scale ratio of the        *)
(* default configuration is a power of 2^(1/6); the Python floats of       *)
(* _get_anchor_wh are kept exactly, as the exponent k of 2^(k/6).          *)
(* torch.Tensor(...) turns them into tensor elements, which are            *)
(* fixed-point integers in units of 1/Scale pixel.  Normalised box         *)
(* coordinates are fractions <<n, d>> in lowest terms, an IoU is the       *)
(* exact fraction <<inter, union>>, and a location target is a fixed-point *)
(* integer in units of 1/LocScale.                                         *)
(***************************************************************************)
EXTENDS Integers, Sequences, FiniteSets, TLC

(* ------------------------------ bounds -------------------------------- *)

\* at most this many ground-truth boxes / labels in one call
MaxObjs == 2

(* ------------------------ number representation ----------------------- *)

\* tensor elements holding pixel quantities: units of 1/Scale pixel
Scale == 16

\* tensor elements of loc_targets: units of 1/LocScale
LocScale == 1000

\* torch.log of a zero ratio
NegInf == 0 - 1000000000

\* 2^(m/6) for m = 0..5, in units of 1/MantDen
MantDen == 4096

Mant == <<4096, 4598, 5161, 5793, 6502, 7298>>

Abs(x) == IF x < 0 THEN 0 - x ELSE x

RECURSIVE Gcd(_, _)
Gcd(a, b) == IF b = 0 THEN a ELSE Gcd(b, a % b)

\* the fraction n/d in lowest terms, d > 0
Frac(n, d) ==
    LET g == Gcd(Abs(n), Abs(d))
        s == IF d < 0 THEN 0 - 1 ELSE 1
    IN  <<(s * n) \div g, (s * d) \div g>>

FracAdd(p, q) == Frac(p[1] * q[2] + q[1] * p[2], p[2] * q[2])

FracSub(p, q) == Frac(p[1] * q[2] - q[1] * p[2], p[2] * q[2])

FracHalf(p) == Frac(p[1], 2 * p[2])

\* sign of a/b - c/d for a, c >= 0 and b, d > 0, by continued fractions
\* (no product of two areas is formed)
RECURSIVE CmpFrac(_, _, _, _)
CmpFrac(a, b, c, d) ==
    LET qa == a \div b
        qc == c \div d
        ra == a % b
        rc == c % d
    IN  IF qa # qc THEN (IF qa < qc THEN 0 - 1 ELSE 1)
        ELSE IF ra = 0 /\ rc = 0 THEN 0
        ELSE IF ra = 0 THEN 0 - 1
        ELSE IF rc = 0 THEN 1
        ELSE CmpFrac(d, rc, b, ra)

\* comparisons of two float values held as fractions
FloatLt(p, q) == CmpFrac(p[1], p[2], q[1], q[2]) < 0

FloatGt(p, q) == CmpFrac(p[1], p[2], q[1], q[2]) > 0

\* the float 2^(k/6) as a tensor element
ToTensor(k) == ((2 ^ (k \div 6)) * Mant[(k % 6) + 1] * Scale) \div MantDen

\* multiplication, division and square root of floats 2^(k/6)
ExpMul(a, b) == a + b

ExpDiv(a, b) == a - b

ExpSqrt(a) == a \div 2

\* the integer e with 2^e <= n/d < 2^(e+1), for n, d > 0
RECURSIVE Log2Floor(_, _)
Log2Floor(n, d) ==
    IF n < d THEN Log2Floor(2 * n, d) - 1
    ELSE IF n >= 2 * d THEN Log2Floor(n, 2 * d) + 1
    ELSE 0

\* fractional bits of log2 of the mantissa m (units of 1/MantDen, in [1,2))
RECURSIVE Log2Frac(_, _)
Log2Frac(m, bits) ==
    IF bits = 0 THEN 0
    ELSE LET sq == (m * m) \div MantDen
         IN  IF sq >= 2 * MantDen
             THEN 2 ^ (bits - 1) + Log2Frac(sq \div 2, bits - 1)
             ELSE Log2Frac(sq, bits - 1)

\* torch.log(n/d) in units of 1/LocScale
TorchLog(n, d) ==
    IF n = 0 THEN NegInf
    ELSE LET e == Log2Floor(n, d)
             m == IF e >= 0 THEN (n * MantDen) \div (d * (2 ^ e))
                  ELSE (n * (2 ^ (0 - e)) * MantDen) \div d
             l2 == e * 1024 + Log2Frac(m, 10)
         IN  (l2 * 693) \div 1024

(* ---------------------------- configuration --------------------------- *)

\* [32*32., 64*64., 128*128., 256*256., 512*512.] = 2^10, 2^12, ..., 2^18
anchor_areas == <<60, 72, 84, 96, 108>>

\* [1/2., 1/1., 2/1.] = 2^-1, 2^0, 2^1
aspect_ratios == <<0 - 6, 0, 6>>

\* [1., pow(2,1/3.), pow(2,2/3.)] = 2^0, 2^(1/3), 2^(2/3)
scale_ratios == <<0, 2, 4>>

(* --------------------------- _get_anchor_wh --------------------------- *)

\* for sr in self.scale_ratios: anchor_wh.append([anchor_w, anchor_h])
RECURSIVE ScaleLoop(_, _, _)
ScaleLoop(w, h, r) ==
    IF r > Len(scale_ratios) THEN <<>>
    ELSE LET sr == scale_ratios[r]
             anchor_h == ExpMul(h, sr)
             anchor_w == ExpMul(w, sr)
         IN  <<<<anchor_w, anchor_h>>>> \o ScaleLoop(w, h, r + 1)

\* AspectLoop with h = sqrt(s*ar)
AspectLoopInverted(s, a) ==
    LET F[i \in 1..(Len(aspect_ratios) + 1)] ==
            IF i > Len(aspect_ratios) THEN <<>>
            ELSE LET ar == aspect_ratios[i]
                     h == ExpSqrt(ExpMul(s, ar))
                     w == ExpMul(ar, h)
                 IN  ScaleLoop(w, h, 1) \o F[i + 1]
    IN  F[a]

\* for ar in self.aspect_ratios: h = sqrt(s/ar); w = ar*h
RECURSIVE AspectLoop(_, _)
AspectLoop(s, a) ==
    IF a > Len(aspect_ratios) THEN <<>>
    ELSE LET ar == aspect_ratios[a]
             h == ExpSqrt(ExpDiv(s, ar))
             w == ExpMul(ar, h)
         IN  ScaleLoop(w, h, 1) \o AspectLoop(s, a + 1)

\* for s in self.anchor_areas
RECURSIVE AreaLoop(_)
AreaLoop(l) ==
    IF l > Len(anchor_areas) THEN <<>>
    ELSE AspectLoop(anchor_areas[l], 1) \o AreaLoop(l + 1)

\* torch.Tensor(anchor_wh).view(num_fms, -1, 2)
get_anchor_wh ==
    LET flat == AreaLoop(1)
        num_fms == Len(anchor_areas)
        per == Len(flat) \div num_fms
    IN  [l \in 1..num_fms |->
            [k \in 1..per |->
                LET e == flat[(l - 1) * per + k]
                IN  <<ToTensor(e[1]), ToTensor(e[2])>>]]

(* -------------------------- _get_anchor_boxes ------------------------- *)

\* utils.meshgrid(size, swap_dims=True): the (col, row) pairs of a
\* size x size grid, rows outermost
meshgrid(size, swap_dims) ==
    [p \in 1..(size * size) |->
        LET row == (p - 1) \div size
            col == (p - 1) % size
        IN  IF swap_dims THEN <<col, row>> ELSE <<row, col>>]

\* FmSize with Python's round(): halves go to the even neighbour
FmSizeHalfEven(input_size, i) ==
    LET d == 2 ^ (i + 3)
        q == input_size \div d
    IN  IF 2 * (input_size % d) > d THEN q + 1
        ELSE IF 2 * (input_size % d) = d /\ q % 2 = 1 THEN q + 1
        ELSE q

\* int(input_size/pow(2.,i+3)+0.5), i = 0..4
FmSize(input_size, i) == (2 * input_size + 2 ^ (i + 3)) \div (2 ^ (i + 4))

\* fm_sizes = [... for i in range(num_fms)]
fm_sizes_of(input_size) ==
    [l \in 1..Len(anchor_areas) |-> FmSize(input_size, l - 1)]

\* a feature map of size 0 makes input_size//fm_size raise
ZeroDivision(input_size) ==
    \E l \in 1..Len(anchor_areas) : fm_sizes_of(input_size)[l] = 0

\* grid_sizes_of with the nominal stride 2^(i+3) of each level
grid_sizes_nominal(input_size) ==
    [l \in 1..Len(anchor_areas) |-> 2 ^ (l + 2)]

\* grid_size = input_size//fm_size, for each feature map
grid_sizes_of(input_size) ==
    [l \in 1..Len(anchor_areas) |-> input_size \div fm_sizes_of(input_size)[l]]

\* concatenation of f[lo], ..., f[hi]
RECURSIVE Cat(_, _, _)
Cat(f, lo, hi) ==
    IF lo > hi THEN <<>>
    ELSE IF lo = hi THEN f[lo]
    ELSE LET mid == (lo + hi) \div 2
         IN  Cat(f, lo, mid) \o Cat(f, mid + 1, hi)

\* the boxes of one feature map: xy = (meshgrid + 0.5) * grid_size,
\* expanded over the 9 anchors of the cell, torch.cat([xy,wh], 3).view(-1,4)
LevelBoxes(wh, input_size, l) ==
    LET fm_size == fm_sizes_of(input_size)[l]
        grid_size == grid_sizes_of(input_size)[l]
        grid == meshgrid(fm_size, TRUE)
        xy == [p \in 1..Len(grid) |->
                 <<((2 * grid[p][1] + 1) * grid_size * Scale) \div 2,
                   ((2 * grid[p][2] + 1) * grid_size * Scale) \div 2>>]
        box == [p \in 1..Len(grid) |-> [k \in 1..9 |-> xy[p] \o wh[l][k]]]
    IN  Cat(box, 1, Len(grid))

\* get_anchor_boxes with the coarsest feature map first
get_anchor_boxes_reversed(wh, input_size) ==
    LET n == Len(anchor_areas)
        boxes == [l \in 1..n |-> LevelBoxes(wh, input_size, n + 1 - l)]
    IN  Cat(boxes, 1, n)

\* torch.cat(boxes, 0) over the feature maps
get_anchor_boxes(wh, input_size) ==
    LET boxes == [l \in 1..Len(anchor_areas) |-> LevelBoxes(wh, input_size, l)]
    IN  Cat(boxes, 1, Len(anchor_areas))

(* ------------------------------- encode ------------------------------- *)

\* utils.change_box_order(boxes, 'xyxy2xywh') on one box:
\* (xmin,ymin,xmax,ymax) -> (center-x, center-y, width, height)
change_box_order(b) ==
    <<FracHalf(FracAdd(b[1], b[3])), FracHalf(FracAdd(b[2], b[4])),
      FracSub(b[3], b[1]), FracSub(b[4], b[2])>>

\* one element of boxes * input_size, as a tensor element
ScaleElem(x, input_size) == (x[1] * input_size * Scale) \div x[2]

\* boxes = change_box_order(boxes, 'xyxy2xywh'); boxes = boxes * input_size
ScaledBoxes(bs, input_size) ==
    [j \in 1..Len(bs) |->
        LET b == change_box_order(bs[j])
        IN  [c \in 1..4 |-> ScaleElem(b[c], input_size)]]

Min(x, y) == IF x < y THEN x ELSE y

Max(x, y) == IF x > y THEN x ELSE y

\* utils.box_iou(..., order='xywh') on one pair of boxes: both are turned
\* into corners (kept here in half units, so that x - w/2 is exact), the
\* overlap extents are clamped at 0, IoU = inter / (areaA + areaB - inter),
\* and 0 when the union is 0
box_iou(a, b) ==
    LET ax1 == 2 * a[1] - a[3]
        ay1 == 2 * a[2] - a[4]
        ax2 == 2 * a[1] + a[3]
        ay2 == 2 * a[2] + a[4]
        bx1 == 2 * b[1] - b[3]
        by1 == 2 * b[2] - b[4]
        bx2 == 2 * b[1] + b[3]
        by2 == 2 * b[2] + b[4]
        w == Max(Min(ax2, bx2) - Max(ax1, bx1), 0)
        h == Max(Min(ay2, by2) - Max(ay1, by1), 0)
        inter == w * h
        union == (ax2 - ax1) * (ay2 - ay1) + (bx2 - bx1) * (by2 - by1) - inter
    IN  IF union = 0 THEN <<0, 1>> ELSE <<inter, union>>

\* RowMax keeping the last occurrence of the maximum
RowMaxLast(row, j, best, best_id) ==
    LET F[k \in 1..(Len(row) + 1)] ==
            IF k > Len(row) THEN <<row[1], 1>>
            ELSE LET rest == F[k + 1]
                 IN  IF k = Len(row) \/ FloatGt(row[k], rest[1])
                     THEN <<row[k], k>>
                     ELSE rest
    IN  F[1]

\* ious.max(1) on one row: the maximum and the index of its first
\* occurrence, scanning the ground-truth boxes from j on
RECURSIVE RowMax(_, _, _, _)
RowMax(row, j, best, best_id) ==
    IF j > Len(row) THEN <<best, best_id>>
    ELSE IF FloatGt(row[j], best) THEN RowMax(row, j + 1, row[j], j)
    ELSE RowMax(row, j + 1, best, best_id)

\* max_ious, max_ids = ious.max(1), for one anchor
MaxIou(anchor, gt) ==
    LET row == [j \in 1..Len(gt) |-> box_iou(anchor, gt[j])]
    IN  RowMax(row, 2, row[1], 1)

\* the float literals 0.4 and 0.5
Thr04 == <<2, 5>>

Thr05 == <<1, 2>>

\* cls_targets = 1 + labels[max_ids]; cls_targets[max_ious<0.4] = 0;
\* ignore = (max_ious>0.4) & (max_ious<0.5); cls_targets[ignore] = -1
ClsTarget(max_iou, label) ==
    LET base == 1 + label
        bg == IF FloatLt(max_iou, Thr04) THEN 0 ELSE base
        ignore == FloatGt(max_iou, Thr04) /\ FloatLt(max_iou, Thr05)
    IN  IF ignore THEN 0 - 1 ELSE bg

\* loc_xy = (boxes[:,:2]-anchor_boxes[:,:2]) / anchor_boxes[:,2:]
\* loc_wh = torch.log(boxes[:,2:]/anchor_boxes[:,2:])
LocTarget(anchor, box) ==
    <<((box[1] - anchor[1]) * LocScale) \div anchor[3],
      ((box[2] - anchor[2]) * LocScale) \div anchor[4],
      TorchLog(box[3], anchor[3]),
      TorchLog(box[4], anchor[4])>>

\* MatchAnchor taking the location target from the first box
MatchAnchorFirstBox(anchor, gt) ==
    LET m == MaxIou(anchor, gt)
    IN  <<m[1], m[2], LocTarget(anchor, gt[1])>>

\* max_ious, max_ids and loc_targets of one anchor
MatchAnchor(anchor, gt) ==
    LET m == MaxIou(anchor, gt)
    IN  <<m[1], m[2], LocTarget(anchor, gt[m[2]])>>

\* anchor_boxes = self._get_anchor_boxes(input_size), in encode
Anchors(wh, size) == get_anchor_boxes(wh, size)

\* what a call leaves when it raises
Raised(err) ==
    [err |-> err, fm_sizes |-> <<>>, grid_sizes |-> <<>>, max_ids |-> <<>>,
     loc_targets |-> <<>>, cls_targets |-> <<>>]

\* what encode returns, with its locals fm_sizes, grid_size and max_ids;
\* labels[max_ids] raises when an index is beyond the labels
encode(wh, bs, ls, size) ==
    IF ZeroDivision(size) THEN Raised("ZeroDivisionError")
    ELSE
    LET anchors == Anchors(wh, size)
        gt == ScaledBoxes(bs, size) \o <<>>
        m == [i \in 1..Len(anchors) |-> MatchAnchor(anchors[i], gt)] \o <<>>
    IN  IF \E i \in 1..Len(anchors) : m[i][2] > Len(ls)
        THEN Raised("IndexError")
        ELSE [err |-> "none",
              fm_sizes |-> fm_sizes_of(size),
              grid_sizes |-> grid_sizes_of(size),
              max_ids |-> [i \in 1..Len(anchors) |-> m[i][2]],
              loc_targets |-> [i \in 1..Len(anchors) |-> m[i][3]],
              cls_targets |-> [i \in 1..Len(anchors) |->
                                  ClsTarget(m[i][1], ls[m[i][2]])]]

(* ------------------------------- inputs ------------------------------- *)

\* model input sizes; 32 gives the coarsest feature map the size 0
InputSizes == {32, 64, 72}

\* a normalised box, from its pixel corners in a 64 x 64 image
Box64(x1, y1, x2, y2) ==
    <<Frac(x1, 64), Frac(y1, 64), Frac(x2, 64), Frac(y2, 64)>>

\* the first ground-truth box of an image: at input size 64 the 32 x 32
\* anchor centred on (36, 36) has IoU 1, 2/5, 9/20, 1/2, 2/5 and 0 with these
BoxSet ==
    { Box64(20, 20, 52, 52), Box64(12, 20, 36, 52), Box64(12, 20, 38, 52),
      Box64(12, 20, 40, 52), Box64(36, 20, 60, 52), Box64(20, 20, 20, 52) }

\* the further ground-truth boxes of an image
MoreBoxes == { Box64(20, 20, 52, 52), Box64(12, 20, 36, 52) }

\* class labels of the ground-truth boxes
LabelSet == {0, 1}

\* the boxes tensors of at most MaxObjs boxes
BoxSeqs ==
    { bs \in UNION { [1..n -> BoxSet] : n \in 1..MaxObjs } :
        \A j \in 2..Len(bs) : bs[j] \in MoreBoxes }

\* the labels tensors going with n boxes: one label a box, one label
\* missing, or one label too many
LabelSeqs(n) ==
    UNION { [1..m -> LabelSet] : m \in (1..MaxObjs) \cap ((n - 1)..(n + 1)) }

(* -------------------------------- state ------------------------------- *)

VARIABLES
    anchor_wh,      \* self.anchor_wh
    boxes,          \* the caller's boxes tensor
    labels,         \* the caller's labels tensor
    input_size,     \* the caller's input_size
    fm_sizes,       \* fm_sizes of the last call
    grid_sizes,     \* grid_size of each feature map in the last call
    anchor_boxes,   \* the list the last _get_anchor_boxes returned
    max_ids,        \* max_ids of the last encode
    loc_targets,    \* loc_targets returned by the last encode
    cls_targets,    \* cls_targets returned by the last encode
    pc              \* what happened last

vars == <<anchor_wh, boxes, labels, input_size, fm_sizes, grid_sizes,
          anchor_boxes, max_ids, loc_targets, cls_targets, pc>>

\* DataEncoder.__init__
Init ==
    /\ anchor_wh = get_anchor_wh
    /\ boxes = <<>>
    /\ labels = <<>>
    /\ input_size = 0
    /\ fm_sizes = <<>>
    /\ grid_sizes = <<>>
    /\ anchor_boxes = <<>>
    /\ max_ids = <<>>
    /\ loc_targets = <<>>
    /\ cls_targets = <<>>
    /\ pc = "constructed"

\* the caller receives what encode returned
Returns(r) ==
    /\ fm_sizes' = r.fm_sizes
    /\ grid_sizes' = r.grid_sizes
    /\ max_ids' = r.max_ids
    /\ loc_targets' = r.loc_targets
    /\ cls_targets' = r.cls_targets
    /\ pc' = IF r.err = "none" THEN "encoded" ELSE r.err

\* the caller builds the boxes and labels tensors of the next image, once
\* it has made a call for the previous one, and drops the previous targets
Load ==
    /\ pc # "loaded"
    /\ \E bs \in BoxSeqs, s \in InputSizes :
         \E ls \in LabelSeqs(Len(bs)) :
            /\ boxes' = bs
            /\ labels' = ls
            /\ input_size' = s
    /\ fm_sizes' = <<>>
    /\ grid_sizes' = <<>>
    /\ anchor_boxes' = <<>>
    /\ max_ids' = <<>>
    /\ loc_targets' = <<>>
    /\ cls_targets' = <<>>
    /\ pc' = "loaded"
    /\ UNCHANGED anchor_wh

\* Encode scaling the caller's boxes in place (boxes *= input_size)
EncodeInPlace ==
    /\ pc = "loaded"
    /\ \E r \in {encode(anchor_wh, boxes, labels, input_size)} : Returns(r)
    /\ boxes' = [j \in 1..Len(boxes) |->
                    [c \in 1..4 |->
                        Frac(boxes[j][c][1] * input_size, boxes[j][c][2])]]
    /\ UNCHANGED <<anchor_wh, labels, input_size, anchor_boxes>>

\* encoder.encode(boxes, labels, input_size)
Encode ==
    /\ pc = "loaded"
    /\ \E r \in {encode(anchor_wh, boxes, labels, input_size)} : Returns(r)
    /\ UNCHANGED <<anchor_wh, boxes, labels, input_size, anchor_boxes>>

\* encoder._get_anchor_boxes(input_size)
GetAnchorBoxes ==
    /\ pc \in {"loaded", "encoded", "IndexError"}
    /\ IF ZeroDivision(input_size)
       THEN /\ pc' = "ZeroDivisionError"
            /\ UNCHANGED <<fm_sizes, grid_sizes, anchor_boxes>>
       ELSE /\ pc' = "anchors"
            /\ fm_sizes' = fm_sizes_of(input_size)
            /\ grid_sizes' = grid_sizes_of(input_size)
            /\ anchor_boxes' = get_anchor_boxes(anchor_wh, input_size)
    /\ UNCHANGED <<anchor_wh, boxes, labels, input_size,
                   max_ids, loc_targets, cls_targets>>

\* test(): one 32 x 32 box on the first cell centre of c3, label 1
Test ==
    /\ pc = "constructed"
    /\ LET in_size == 600
           c3_size == 75
           grid_size == in_size \div c3_size
           cx == grid_size \div 2
           cy == grid_size \div 2
           w == 32
           h == 32
           bs == << <<Frac(cx - w \div 2, in_size), Frac(cy - w \div 2, in_size),
                      Frac(cx + w \div 2, in_size), Frac(cy + w \div 2, in_size)>> >>
           ls == <<1>>
       IN  /\ boxes' = bs
           /\ labels' = ls
           /\ input_size' = in_size
           /\ \E r \in {encode(anchor_wh, bs, ls, in_size)} : Returns(r)
    /\ UNCHANGED <<anchor_wh, anchor_boxes>>

Next == Load \/ Encode \/ GetAnchorBoxes \/ Test

Spec == Init /\ [][Next]_vars

(* ------------------------------- claims ------------------------------- *)

\* the ground-truth boxes as encode matches them
Gt == ScaledBoxes(boxes, input_size)

\* the anchor list of the last encode
Ab == Anchors(anchor_wh, input_size)

\* C1: every classification target is decided by the anchor's maximum IoU
\* as a three-way partition: below 0.4 background (0), from 0.4 up to but
\* not including 0.5 ignore (-1), from 0.5 on the class 1 + label of the
\* matched box; so every target is -1, 0 or a foreground class and no
\* anchor below 0.5 is foreground.
C1_ThreeWayPartition ==
    pc = "encoded" =>
        \A ab \in {Ab}, gt \in {Gt} : \A i \in 1..Len(cls_targets) :
            LET max_iou == MaxIou(ab[i], gt)[1]
                fg == 1 + labels[max_ids[i]]
            IN  /\ cls_targets[i] \in {0 - 1, 0} \cup {1 + l : l \in LabelSet}
                /\ FloatLt(max_iou, Thr04) => cls_targets[i] = 0
                /\ (~FloatLt(max_iou, Thr04) /\ FloatLt(max_iou, Thr05))
                       => cls_targets[i] = 0 - 1
                /\ ~FloatLt(max_iou, Thr05) => cls_targets[i] = fg

\* C2: at the exact thresholds, a maximum IoU of exactly 0.4 gives
\* background (0), exactly 0.5 gives the foreground class 1 + label, and
\* 0.45 gives ignore (-1).
C2_ThresholdBoundaries ==
    pc = "encoded" =>
        \A ab \in {Ab}, gt \in {Gt} : \A i \in 1..Len(cls_targets) :
            LET m == MaxIou(ab[i], gt)[1]
                max_iou == Frac(m[1], m[2])
            IN  /\ max_iou = <<2, 5>> => cls_targets[i] = 0
                /\ max_iou = <<1, 2>>
                       => cls_targets[i] = 1 + labels[max_ids[i]]
                /\ max_iou = <<9, 20>> => cls_targets[i] = 0 - 1

\* C3: when every feature map has size >= 1, encode returns loc_targets
\* and cls_targets with one entry an anchor, and the number of anchors is
\* the sum over the 5 levels of fm_i * fm_i * 9 with
\* fm_i = round(input_size / 2^(i+3)); for input size 600 it is 67824.
\* (A call raises ZeroDivisionError only when some fm_i is 0.)
C3_OneTargetPerAnchor ==
    LET per == Len(aspect_ratios) * Len(scale_ratios)
        d(i) == 2 ^ (i + 3)
        fm(i) == IF 2 * (input_size % d(i)) >= d(i)
                 THEN input_size \div d(i) + 1
                 ELSE input_size \div d(i)
        total == per * (fm(0) * fm(0) + fm(1) * fm(1) + fm(2) * fm(2)
                        + fm(3) * fm(3) + fm(4) * fm(4))
    IN  /\ pc = "encoded" =>
            /\ \A i \in 0..4 : fm(i) >= 1
            /\ Len(Ab) = total
            /\ Len(loc_targets) = total
            /\ Len(cls_targets) = total
            /\ \A i \in 1..total : Len(loc_targets[i]) = 4
            /\ input_size = 600 => total = 67824
        /\ pc = "anchors" => Len(anchor_boxes) = total
        /\ pc = "ZeroDivisionError" => \E i \in 0..4 : fm(i) = 0

C3_Witness ==
    pc = "encoded" /\ input_size = 600 /\ Len(cls_targets) = 67824

\* number of anchors of the feature maps before level l
RECURSIVE LevelOffset(_)
LevelOffset(l) ==
    IF l = 1 THEN 0
    ELSE LevelOffset(l - 1) + fm_sizes[l - 1] * fm_sizes[l - 1] * 9

\* C4: the flat anchor list is ordered level, then grid row, then grid
\* column, then anchor slot: the anchor of level l, row r, column c, slot k
\* sits at offset_l + (r * fm_l + c) * 9 + k, has the centre
\* ((c + 0.5) * stride_l, (r + 0.5) * stride_l), stride_l = input_size //
\* fm_l, and the width and height of entry [l, k] of the anchor table.
C4_AnchorOrder ==
    pc = "anchors" =>
        \A l \in 1..Len(anchor_areas) :
            LET fm == fm_sizes[l]
                stride == input_size \div fm
                offset == LevelOffset(l)
            IN  \A r \in 0..(fm - 1), c \in 0..(fm - 1), k \in 0..8 :
                    anchor_boxes[offset + (r * fm + c) * 9 + k + 1] =
                        <<((2 * c + 1) * stride * Scale) \div 2,
                          ((2 * r + 1) * stride * Scale) \div 2,
                          anchor_wh[l][k + 1][1],
                          anchor_wh[l][k + 1][2]>>

\* input size 72: level 1 has fm 5 and stride 14; its row 1, column 2,
\* slot 4 is centred on (35, 21)
C4_Witness ==
    /\ pc = "anchors"
    /\ input_size = 72
    /\ anchor_boxes[9 * 9 * 9 + (1 * 5 + 2) * 9 + 4 + 1] =
           <<35 * Scale, 21 * Scale, anchor_wh[2][5][1], anchor_wh[2][5][2]>>

\* C5: encode fails with InvalidInput, returning no targets, whenever
\* len(boxes) != len(labels) or a box has width <= 0 or height <= 0 after
\* the conversion to centre/size form.
C5_InvalidInputRejected ==
    pc = "encoded" =>
        /\ Len(boxes) = Len(labels)
        /\ \A j \in 1..Len(boxes) :
               /\ change_box_order(boxes[j])[3][1] > 0
               /\ change_box_order(boxes[j])[4][1] > 0

\* C6 as stated: for input size 600 the grid strides of the five levels
\* are 8, 16, 32, 64 and 128.
C6_PowerOfTwoStrides ==
    (pc \in {"encoded", "anchors"} /\ input_size = 600) =>
        grid_sizes = <<8, 16, 32, 64, 128>>

\* C6 as amended: for input size 600 the feature map sizes are 75, 38, 19,
\* 9 and 5 and the grid strides input_size // fm_i are 8, 15, 31, 66, 120.
C6_Strides600 ==
    (pc \in {"encoded", "anchors"} /\ input_size = 600) =>
        /\ fm_sizes = <<75, 38, 19, 9, 5>>
        /\ grid_sizes = <<8, 15, 31, 66, 120>>

C6_Witness ==
    pc = "encoded" /\ input_size = 600 /\ grid_sizes[2] = 15

\* the box and label of test()
TestInput ==
    /\ input_size = 600
    /\ boxes = << <<Frac(0 - 12, 600), Frac(0 - 12, 600),
                    Frac(20, 600), Frac(20, 600)>> >>
    /\ labels = <<1>>

\* the 32 x 32 anchor of level 0, row 0, column 0 at input size 600
TestAnchor == <<4 * Scale, 4 * Scale, 32 * Scale, 32 * Scale>>

\* the other two parts of C7: with a single ground-truth box every anchor
\* whose IoU with it is below 0.4 is background, and in the scenario of
\* test() the 32 x 32 anchor of level 0, row 0, column 0 gets class 2
C7_Rest ==
    \A ab \in {Ab}, gt \in {Gt} :
        /\ Len(boxes) = 1 =>
               \A i \in 1..Len(cls_targets) :
                   FloatLt(box_iou(ab[i], gt[1]), Thr04) => cls_targets[i] = 0
        /\ TestInput =>
               /\ \E k \in 1..9 : ab[k] = TestAnchor
               /\ \A k \in 1..9 : ab[k] = TestAnchor => cls_targets[k] = 2

C9_MatchesFirstMaximum ==
    pc = "encoded" =>
        \A ab \in {Ab}, gt \in {Gt} : \A i \in 1..Len(cls_targets) :
            LET id == max_ids[i]
                top == box_iou(ab[i], gt[id])
            IN  /\ id \in 1..Len(gt)
                /\ \A j \in 1..Len(gt) :
                       /\ ~FloatGt(box_iou(ab[i], gt[j]), top)
                       /\ j < id => FloatLt(box_iou(ab[i], gt[j]), top)
                /\ loc_targets[i] = LocTarget(ab[i], gt[id])
                /\ cls_targets[i] \notin {0 - 1, 0}
                       => cls_targets[i] = 1 + labels[id]

\* two different boxes tie, above 0, for an anchor, which takes the first
C9_Witness ==
    /\ pc = "encoded"
    /\ Len(boxes) = 2
    /\ boxes[1] # boxes[2]
    /\ \E i \in 1..Len(cls_targets) :
           /\ max_ids[i] = 1
           /\ box_iou(Ab[i], Gt[1])[1] > 0
           /\ box_iou(Ab[i], Gt[2]) = box_iou(Ab[i], Gt[1])

\* C10: the anchor table has the shape [areas, aspect ratios * scale
\* ratios, 2]; its entry for level l and slot a * |scale_ratios| + r is
\* (w * sr_r, h * sr_r) for the base width and height with w = ar_a * h and
\* w * h = s_l: aspect ratio outer, scale ratio inner, within each area.
C10_AnchorWhTable ==
    LET na == Len(aspect_ratios)
        ns == Len(scale_ratios)
    IN  /\ Len(anchor_wh) = Len(anchor_areas)
        /\ \A l \in 1..Len(anchor_areas) :
               /\ Len(anchor_wh[l]) = na * ns
               /\ \A a \in 1..na, r \in 1..ns :
                      /\ Len(anchor_wh[l][(a - 1) * ns + r]) = 2
                      /\ \E h \in 0..120 :
                             LET w == ExpMul(aspect_ratios[a], h)
                             IN  /\ ExpMul(w, h) = anchor_areas[l]
                                 /\ anchor_wh[l][(a - 1) * ns + r] =
                                        <<ToTensor(ExpMul(w, scale_ratios[r])),
                                          ToTensor(ExpMul(h, scale_ratios[r]))>>

\* the table after calls: level 0, aspect ratio 1/2, scale 1 is about
\* 22.6 x 45.3, and aspect ratio 1, scale 2^(2/3) is about 50.8 x 50.8
C10_Witness ==
    /\ pc = "encoded"
    /\ anchor_wh[1][1] = <<362, 724>>
    /\ anchor_wh[1][6] = <<812, 812>>

=============================================================================
